---- MODULE Spec2Model ----
(***************************************************************************)
(* Model of DependencyManager (src/src/backend/dependency.py): the step    *)
(* executor async_install, its entry point install, the manifest           *)
(* resolution get_dependency and the ten step handlers, acting on one      *)
(* bottle configuration (the ledger fields Installed_Dependencies and      *)
(* Uninstallers) and on the shared staging directory Paths.temp.           *)
(***************************************************************************)
EXTENDS Integers, Sequences, FiniteSets, TLC

\* ------------------------------------------------------------------ bounds
\* Longest manifest "Steps" list that is enumerated.
MaxSteps == 2

\* ------------------------------------------------------------- input sets
\* Worker threads started by install() through RunAsync.
Procs == {1}

\* Names of dependencies (dependency[0]).
Deps == {"d1", "d2"}

\* The dependencies the callers of this model ask for; d2 is one that an
\* earlier session may have installed.
Requested == {"d1"}

\* The widget argument: a Gtk widget or Python's None.
Widgets == {"widget", "None"}

\* Values of step["action"] that one of the if-statements of the loop tests.
RecognisedActions ==
    {"delete_sys32_dlls", "install_exe", "uninstall", "cab_extract",
     "archive_extract", "install_fonts", "copy_dll", "override_dll",
     "set_register_key", "register_font"}

\* A value of step["action"] that none of the if-statements tests.
UnknownAction == "unknown_action"

StepActions == RecognisedActions \cup {UnknownAction}

\* The staging directory name under Paths.temp every step of the model uses.
Pack == "pack"

NO_UNINSTALLER == "NO_UNINSTALLER"

\* Values of manifest.get("Uninstaller"): "" stands for an absent key.
DeclaredUninstallers == {"", "Setup"}

SeqsUpTo(S, n) == UNION {[1..k -> S] : k \in 0..n}

Range(s) == {s[i] : i \in 1..Len(s)}

\* What get_dependency returns when it returns False.
NoManifest == [Found |-> FALSE, Steps |-> <<>>, Uninstaller |-> ""]

\* The parsed manifests get_dependency may return.
Manifests ==
    [Found : {TRUE}, Steps : SeqsUpTo(StepActions, MaxSteps),
     Uninstaller : DeclaredUninstallers]

\* ------------------------------------------------------------------ state
VARIABLES
    config,   \* the bottle configuration (one environment)
    temp,     \* Paths.temp: staging directory name -> who staged its files
    inv       \* per worker: the locals of one install()/async_install call

vars == <<config, temp, inv>>

\* The locals of a call that has not started.
Idle ==
    [pc |-> "idle", dependency |-> "", widget |-> "None",
     manifest |-> NoManifest, taken |-> 0, has_no_uninstaller |-> FALSE,
     dependencies |-> <<>>, download_entry |-> "none", result |-> "none",
     calls |-> <<>>, notes |-> <<>>, overlapped |-> FALSE,
     config0 |-> [Versioning |-> FALSE, Installed_Dependencies |-> <<>>,
                 Uninstallers |-> <<>>],
     temp0 |-> "none"]

\* ------------------------------------------------- collaborators' contract
\* manager.update_config(config, key, value, scope): sets config[key], or
\* config[scope][key] when a scope is given, on the caller's config object.
UpdateConfig(cfg, key, value, scope) ==
    IF scope = ""
    THEN [cfg EXCEPT ![key] = value]
    ELSE [cfg EXCEPT ![scope] =
            [k \in DOMAIN cfg[scope] \cup {key} |->
                IF k = key THEN value ELSE cfg[scope][k]]]

\* ------------------------------------------------ decisions of the executor
\* Mutant: the flag is set for every action that is not one of the six
\* handled without it, an unrecognised one included.
SetsNoUninstaller_Default(action) ==
    action \notin {"delete_sys32_dlls", "install_exe", "uninstall",
                   "override_dll", "set_register_key", "register_font"}

\* Lines 171-172, 178-179, 182-183, 189-190: the actions whose branch sets
\* has_no_uninstaller.
SetsNoUninstaller(action) ==
    action \in {"cab_extract", "archive_extract", "install_fonts", "copy_dll"}

\* The if-chain of the loop: whether some branch tests this action.
Dispatches(action) == action \in RecognisedActions

\* Mutant: the snapshot is requested whatever config["Versioning"] is.
SnapshotCalls_Always(versioning, dep) ==
    <<[h |-> "async_create_bottle_state", r |-> "ok",
       ext |-> <<"before", dep>>, read |-> ""]>>

\* Lines 111-121: the snapshot labelled "before <dependency>", requested
\* when config["Versioning"] is set.
SnapshotCalls(versioning, dep) ==
    IF versioning
    THEN <<[h |-> "async_create_bottle_state", r |-> "ok",
            ext |-> <<"before", dep>>, read |-> ""]>>
    ELSE <<>>

\* Mutant: the list written holds the new name alone.
NewDependencies_Alone(installed, dep) == <<dep>>

\* Mutant: the new name is put in front of the list.
NewDependencies_Prepend(installed, dep) == <<dep>> \o installed

\* Lines 219-223: the list written when the dependency is not yet listed.
NewDependencies(installed, dep) ==
    IF installed # <<>> THEN installed \o <<dep>> ELSE <<dep>>

\* Mutant: the membership test always finds the name missing.
NotListed_Always(installed, dep) == TRUE

\* Mutant: the membership test never finds the name missing.
NotListed_Never(installed, dep) == FALSE

\* Line 214: the membership test guarding the append.
NotListed(installed, dep) == dep \notin Range(installed)

\* Mutant: the entry is written without the test of line 231.
RecordsUninstaller_Always(manifest, has_no_uninstaller) == TRUE

\* Line 231: whether an Uninstallers entry is written.
RecordsUninstaller(manifest, has_no_uninstaller) ==
    manifest.Uninstaller # "" \/ has_no_uninstaller

\* Mutant: a declared uninstaller wins over the sentinel.
UninstallerRef_DeclaredFirst(manifest, has_no_uninstaller) ==
    IF manifest.Uninstaller # "" THEN manifest.Uninstaller ELSE NO_UNINSTALLER

\* Lines 237-240: the value written.
UninstallerRef(manifest, has_no_uninstaller) ==
    IF has_no_uninstaller THEN NO_UNINSTALLER ELSE manifest.Uninstaller

\* Mutant: the final status ignores has_no_uninstaller.
StatusNotes_AlwaysInstalled(widget, has_no_uninstaller) ==
    IF widget = "None" THEN <<>> ELSE <<"set_installed_True">>

\* Lines 253-257: the notifications of the final status.
StatusNotes(widget, has_no_uninstaller) ==
    IF widget = "None" THEN <<>>
    ELSE IF has_no_uninstaller THEN <<"set_installed_False">>
    ELSE <<"set_installed_True">>

\* Mutant: a failed extraction reports "not installed" instead of the error
\* state.
ErrNotes_AsStatus(widget, ok) ==
    IF ok \/ widget = "None" THEN <<>> ELSE <<"set_installed_False">>

\* Lines 388-389, 395-396, 413-414: the error state of a failed extraction.
ErrNotes(widget, ok) ==
    IF ok \/ widget = "None" THEN <<>> ELSE <<"set_err">>

\* Lines 334-335: the install button is re-enabled after a failed fetch.
SensitiveNotes(widget) ==
    IF widget = "None" THEN <<>> ELSE <<"btn_install.set_sensitive">>

\* The handler each recognised action is dispatched to (lines 152-212).
\* install_exe stands for install_exe/install_msi, install_fonts for
\* install_cab_fonts/install_fonts, copy_dll for copy_cab_dll/copy_dll.
HandlerOf(action) ==
    CASE action = "delete_sys32_dlls" -> "__step_delete_sys32_dlls"
      [] action = "install_exe"       -> "__step_install_exe_msi"
      [] action = "uninstall"         -> "__step_uninstall"
      [] action = "cab_extract"       -> "__step_cab_extract"
      [] action = "archive_extract"   -> "__step_archive_extract"
      [] action = "install_fonts"     -> "__step_install_fonts"
      [] action = "copy_dll"          -> "__step_copy_dll"
      [] action = "override_dll"      -> "__step_override_dll"
      [] action = "set_register_key"  -> "__step_set_register_key"
      [] action = "register_font"     -> "__step_register_font"

HandlerNames == {HandlerOf(a) : a \in RecognisedActions}

\* One entry of a call's log: the callee h, how it ended (r), the external
\* collaborators it called (ext) and whose staged files it read (read).
Call(h, r, ext, read) == [h |-> h, r |-> r, ext |-> ext, read |-> read]

\* The for-loop of line 146: after the body ran for one step, the loop takes
\* the next step or falls through to line 214.
LoopPc(r) ==
    IF r.taken + 1 >= Len(r.manifest.Steps) THEN "check_installed" ELSE "steps"

\* One iteration of the loop whose handler returned: flag is the assignment
\* of has_no_uninstaller made before the handler is called.
Returned(r, flag, entries, notes) ==
    [r EXCEPT !.taken = @ + 1, !.has_no_uninstaller = @ \/ flag,
              !.calls = @ \o entries, !.notes = @ \o notes, !.pc = LoopPc(r)]

\* One iteration of the loop whose handler did not return (an exception that
\* nothing catches, or exit()): async_install is unwound and the worker ends.
Unwound(r, flag, entries, notes, how) ==
    [r EXCEPT !.taken = @ + 1, !.has_no_uninstaller = @ \/ flag,
              !.calls = @ \o entries, !.notes = @ \o notes,
              !.pc = "done", !.result = how]

\* The loop is at a step whose action is a.
AtStep(p, a) ==
    /\ inv[p].pc = "steps"
    /\ inv[p].manifest.Steps[inv[p].taken + 1] = a
    /\ Dispatches(a)

\* extract_archive into a fresh directory (lines 434-441), and cabextract
\* into the directory named after the archive: the files are dep's now.
\* Mutant: an extraction leaves the staging directory as it was.
Staged_Nothing(t, name, dep) == t

Staged(t, name, dep) == [t EXCEPT ![name] = dep]

\* Lines 434-438 when the extraction then fails: the old directory is
\* removed and an empty one is left.
Emptied(t, name) == [t EXCEPT ![name] = "none"]

\* ----------------------------------------------------------------- install
\* The thread of a call runs: RunAsync has started it and async_install has
\* not ended.
Running(r) == r.pc \notin {"idle", "done"}

\* install(), lines 261-272: the worker is started only with connectivity.
\* A call that starts while another runs is recorded, with the other, as
\* having overlapped.
Install(p, dep, w, conn) ==
    /\ inv[p].pc = "idle"
    /\ inv' =
         IF conn
         THEN [q \in DOMAIN inv |->
                 IF q = p
                 THEN [Idle EXCEPT !.pc = "begin", !.dependency = dep,
                                   !.widget = w, !.config0 = config,
                                   !.temp0 = temp[Pack],
                                   !.overlapped =
                                      \E r \in DOMAIN inv : Running(inv[r])]
                 ELSE [inv[q] EXCEPT !.overlapped = @ \/ Running(inv[q])]]
         ELSE [inv EXCEPT ![p] =
                 [Idle EXCEPT !.pc = "done", !.dependency = dep,
                              !.widget = w, !.config0 = config,
                              !.temp0 = temp[Pack],
                              !.result = "not_started"]]
    /\ UNCHANGED <<config, temp>>

\* async_install, lines 108-133: the snapshot when Versioning is set, then
\* the download-tracking entry.
Begin(p) ==
    /\ inv[p].pc = "begin"
    /\ inv' = [inv EXCEPT ![p] =
         [@ EXCEPT !.pc = "get_dependency",
                   !.download_entry = "open",
                   !.calls = @ \o
                      SnapshotCalls(config.Versioning, inv[p].dependency)
                      \o <<Call("new_download", "ok", <<>>, "")>>]]
    /\ UNCHANGED <<config, temp>>

\* Lines 134-144 with get_dependency (lines 57-77): m is the parsed manifest,
\* or NoManifest for no connection, a transport or parse error, or an empty
\* document. With no manifest, line 143 reads widget.set_installed, which
\* raises AttributeError when the widget is None.
GetDependency(p, m) ==
    /\ inv[p].pc = "get_dependency"
    /\ inv' = [inv EXCEPT ![p] =
         IF ~m.Found
         THEN IF inv[p].widget = "None"
              THEN [@ EXCEPT !.pc = "done", !.result = "raised",
                       !.calls = Append(@, Call("get_dependency", "False", <<>>, ""))]
              ELSE [@ EXCEPT !.pc = "done", !.result = "False",
                       !.notes = Append(@, "set_installed_False"),
                       !.calls = Append(@, Call("get_dependency", "False", <<>>, ""))]
         ELSE [@ EXCEPT !.manifest = m,
                  !.calls = Append(@, Call("get_dependency", "ok", <<>>, "")),
                  !.pc = IF m.Steps = <<>> THEN "check_installed" ELSE "steps"]]
    /\ UNCHANGED <<config, temp>>

\* Lines 152-156 and 274-300: a missing DLL is caught and logged.
StepDeleteSys32Dlls(p, found) ==
    /\ AtStep(p, "delete_sys32_dlls")
    /\ inv' = [inv EXCEPT ![p] =
         Returned(@, SetsNoUninstaller("delete_sys32_dlls"),
            <<Call(HandlerOf("delete_sys32_dlls"),
                   IF found THEN "ok" ELSE "not_found", <<"os.remove">>, "")>>,
            <<>>)]
    /\ UNCHANGED <<config, temp>>

\* Lines 158-163 and 302-336: the installer runs only if it was downloaded;
\* the False the handler returns otherwise is not read by the loop.
StepInstallExeMsi(p, download) ==
    /\ AtStep(p, "install_exe")
    /\ inv' = [inv EXCEPT ![p] =
         Returned(@, SetsNoUninstaller("install_exe"),
            <<Call(HandlerOf("install_exe"),
                   IF download THEN "ok" ELSE "False",
                   IF download THEN <<"download", "run_executable">>
                               ELSE <<"download">>, "")>>,
            IF download THEN <<>> ELSE SensitiveNotes(inv[p].widget))]
    /\ UNCHANGED <<config, temp>>

\* Lines 165-169 and 338-361: run_uninstaller only for a non-empty uuid.
StepUninstall(p, match) ==
    /\ AtStep(p, "uninstall")
    /\ inv' = [inv EXCEPT ![p] =
         Returned(@, SetsNoUninstaller("uninstall"),
            <<Call(HandlerOf("uninstall"),
                   IF match THEN "ok" ELSE "no_match",
                   IF match THEN <<"run_command", "run_uninstaller">>
                            ELSE <<"run_command">>, "")>>,
            <<>>)]
    /\ UNCHANGED <<config, temp>>

\* Lines 171-176 and 363-415. mode is the form of step["url"]: "url" when
\* validate_url accepts it, "temp" when it starts with temp/, else "other".
\* With a URL both extractions run whatever the first returned; with a
\* pre-staged path a failed extraction calls exit().
StepCabExtract(p, mode, download, e1, e2) ==
    /\ AtStep(p, "cab_extract")
    /\ LET h == HandlerOf("cab_extract")
           f == SetsNoUninstaller("cab_extract")
           w == inv[p].widget
       IN
       \/ /\ mode = "url" /\ ~download /\ e1 /\ e2
          /\ inv' = [inv EXCEPT ![p] =
               Returned(@, f, <<Call(h, "fetch_failed", <<"download">>, "")>>, <<>>)]
          /\ UNCHANGED temp
       \/ /\ mode = "url" /\ download
          /\ inv' = [inv EXCEPT ![p] =
               Returned(@, f,
                  <<Call(h, IF e1 /\ e2 THEN "ok" ELSE "extract_failed",
                         <<"download", "CabExtract", "CabExtract">>, "")>>,
                  ErrNotes(w, e1) \o ErrNotes(w, e2))]
          /\ temp' = IF e2 THEN Staged(temp, Pack, inv[p].dependency) ELSE temp
       \/ /\ mode = "temp" /\ download /\ e1 /\ e2
          /\ inv' = [inv EXCEPT ![p] =
               Returned(@, f, <<Call(h, "ok", <<"CabExtract">>, "")>>, <<>>)]
          /\ temp' = Staged(temp, Pack, inv[p].dependency)
       \/ /\ mode = "temp" /\ download /\ ~e1 /\ e2
          /\ inv' = [inv EXCEPT ![p] =
               Unwound(@, f, <<Call(h, "exit", <<"CabExtract">>, "")>>,
                       ErrNotes(w, FALSE), "exit")]
          /\ UNCHANGED temp
       \/ /\ mode = "other" /\ download /\ e1 /\ e2
          /\ inv' = [inv EXCEPT ![p] =
               Returned(@, f, <<Call(h, "skipped", <<>>, "")>>, <<>>)]
          /\ UNCHANGED temp
    /\ UNCHANGED config

\* Lines 178-180 and 417-441: nothing is extracted without the download;
\* patoolib.extract_archive raises on an archive it cannot extract, and
\* nothing catches it.
StepArchiveExtract(p, outcome) ==
    /\ AtStep(p, "archive_extract")
    /\ LET h == HandlerOf("archive_extract")
           f == SetsNoUninstaller("archive_extract")
       IN
       \/ /\ outcome = "fetch_failed"
          /\ inv' = [inv EXCEPT ![p] =
               Returned(@, f, <<Call(h, "fetch_failed", <<"download">>, "")>>, <<>>)]
          /\ UNCHANGED temp
       \/ /\ outcome = "ok"
          /\ inv' = [inv EXCEPT ![p] =
               Returned(@, f,
                  <<Call(h, "ok", <<"download", "extract_archive">>, "")>>, <<>>)]
          /\ temp' = Staged(temp, Pack, inv[p].dependency)
       \/ /\ outcome = "extract_error"
          /\ inv' = [inv EXCEPT ![p] =
               Unwound(@, f,
                  <<Call(h, "raised", <<"download", "extract_archive">>, "")>>,
                  <<>>, "raised")]
          /\ temp' = Emptied(temp, Pack)
    /\ UNCHANGED config

\* Lines 182-187 and 443-452: shutil.copyfile raises FileNotFoundError for a
\* font that is not staged, and nothing catches it.
StepInstallFonts(p) ==
    /\ AtStep(p, "install_fonts")
    /\ LET h == HandlerOf("install_fonts")
           f == SetsNoUninstaller("install_fonts")
       IN
       inv' = [inv EXCEPT ![p] =
          IF temp[Pack] # "none"
          THEN Returned(@, f, <<Call(h, "ok", <<"copyfile">>, temp[Pack])>>, <<>>)
          ELSE Unwound(@, f, <<Call(h, "raised", <<"copyfile">>, "")>>,
                       <<>>, "raised")]
    /\ UNCHANGED <<config, temp>>

\* Lines 189-194 and 454-474: FileNotFoundError is caught and the handler
\* returns False; with a "*" in file_name glob() of a missing path is the
\* empty list, nothing is copied and nothing is raised.
StepCopyDll(p, wildcard) ==
    /\ AtStep(p, "copy_dll")
    /\ LET h == HandlerOf("copy_dll")
           f == SetsNoUninstaller("copy_dll")
       IN
       inv' = [inv EXCEPT ![p] =
          IF temp[Pack] # "none"
          THEN Returned(@, f,
                  <<Call(h, "copied",
                         IF wildcard THEN <<"glob", "copyfile">>
                                     ELSE <<"copyfile">>, temp[Pack])>>, <<>>)
          ELSE IF wildcard
          THEN Returned(@, f, <<Call(h, "nothing_matched", <<"glob">>, "")>>, <<>>)
          ELSE Returned(@, f, <<Call(h, "False", <<"copyfile">>, "")>>, <<>>)]
    /\ UNCHANGED <<config, temp>>

\* Lines 196-200 and 476-495: one reg_add per file the glob matches for a
\* temp/ url, one reg_add otherwise.
StepOverrideDll(p, staged_url) ==
    /\ AtStep(p, "override_dll")
    /\ inv' = [inv EXCEPT ![p] =
         Returned(@, SetsNoUninstaller("override_dll"),
            <<Call(HandlerOf("override_dll"), "ok",
                   IF staged_url
                   THEN IF temp[Pack] # "none" THEN <<"glob", "reg_add">>
                                               ELSE <<"glob">>
                   ELSE <<"reg_add">>,
                   IF staged_url THEN temp[Pack] ELSE "")>>,
            <<>>)]
    /\ UNCHANGED <<config, temp>>

\* Lines 202-206 and 497-504.
StepSetRegisterKey(p) ==
    /\ AtStep(p, "set_register_key")
    /\ inv' = [inv EXCEPT ![p] =
         Returned(@, SetsNoUninstaller("set_register_key"),
            <<Call(HandlerOf("set_register_key"), "ok", <<"reg_add">>, "")>>,
            <<>>)]
    /\ UNCHANGED <<config, temp>>

\* Lines 208-212 and 506-512.
StepRegisterFont(p) ==
    /\ AtStep(p, "register_font")
    /\ inv' = [inv EXCEPT ![p] =
         Returned(@, SetsNoUninstaller("register_font"),
            <<Call(HandlerOf("register_font"), "ok", <<"reg_add">>, "")>>,
            <<>>)]
    /\ UNCHANGED <<config, temp>>

\* Lines 146-212 for a step none of the if-statements matches: the body of
\* the loop does nothing.
StepSkipped(p) ==
    /\ inv[p].pc = "steps"
    /\ LET a == inv[p].manifest.Steps[inv[p].taken + 1] IN
       /\ ~Dispatches(a)
       /\ inv' = [inv EXCEPT ![p] =
            Returned(@, SetsNoUninstaller(a), <<>>, <<>>)]
    /\ UNCHANGED <<config, temp>>

\* Line 214: the membership test, a first read of the list.
CheckInstalled(p) ==
    /\ inv[p].pc = "check_installed"
    /\ inv' = [inv EXCEPT ![p] =
         IF NotListed(config.Installed_Dependencies, inv[p].dependency)
         THEN [@ EXCEPT !.pc = "build_list"]
         ELSE [@ EXCEPT !.pc = "uninstaller"]]
    /\ UNCHANGED <<config, temp>>

\* Lines 219-223: the list to write, from a second read of the list.
BuildList(p) ==
    /\ inv[p].pc = "build_list"
    /\ inv' = [inv EXCEPT ![p] =
         [@ EXCEPT !.pc = "write_installed",
                   !.dependencies =
                      NewDependencies(config.Installed_Dependencies,
                                      inv[p].dependency)]]
    /\ UNCHANGED <<config, temp>>

\* Lines 225-229: the whole list is written.
WriteInstalled(p) ==
    /\ inv[p].pc = "write_installed"
    /\ config' = UpdateConfig(config, "Installed_Dependencies",
                              inv[p].dependencies, "")
    /\ inv' = [inv EXCEPT ![p] =
         [@ EXCEPT !.pc = "uninstaller",
                   !.calls = Append(@,
                      Call("update_config", "Installed_Dependencies", <<>>, ""))]]
    /\ UNCHANGED temp

\* Lines 231-247.
UpdateUninstaller(p) ==
    /\ inv[p].pc = "uninstaller"
    /\ LET m == inv[p].manifest
           f == inv[p].has_no_uninstaller
       IN
       IF RecordsUninstaller(m, f)
       THEN /\ config' = UpdateConfig(config, inv[p].dependency,
                                      UninstallerRef(m, f), "Uninstallers")
            /\ inv' = [inv EXCEPT ![p] =
                 [@ EXCEPT !.pc = "report",
                           !.calls = Append(@,
                              Call("update_config", "Uninstallers", <<>>, ""))]]
       ELSE /\ inv' = [inv EXCEPT ![p] = [@ EXCEPT !.pc = "report"]]
            /\ UNCHANGED config
    /\ UNCHANGED temp

\* Lines 249-259: the download entry is removed, the widget is told the
\* final status and async_install returns True.
ReportStatus(p) ==
    /\ inv[p].pc = "report"
    /\ inv' = [inv EXCEPT ![p] =
         [@ EXCEPT !.pc = "done", !.result = "True",
                   !.download_entry = "removed",
                   !.calls = Append(@, Call("download_entry.remove", "ok", <<>>, "")),
                   !.notes = @ \o StatusNotes(inv[p].widget,
                                              inv[p].has_no_uninstaller)]]
    /\ UNCHANGED <<config, temp>>

\* The worker thread of RunAsync (line 268) has ended: its locals are gone.
Return(p) ==
    /\ inv[p].pc = "done"
    /\ inv' = [inv EXCEPT ![p] = Idle]
    /\ UNCHANGED <<config, temp>>

\* No other call is in progress: the calls are made one after the other.
Sequential(p) == \A q \in Procs \ {p} : inv[q].pc = "idle"

\* The bottle as an earlier session left it, with versioning on or off:
\* nothing installed, or d2 installed with the uninstaller its manifest
\* declared.
Init ==
    /\ config \in
         {[Versioning |-> v, Installed_Dependencies |-> <<>>,
           Uninstallers |-> <<>>] : v \in BOOLEAN}
         \cup
         {[Versioning |-> v, Installed_Dependencies |-> <<"d2">>,
           Uninstallers |-> [d \in {"d2"} |-> "Setup"]] : v \in BOOLEAN}
    /\ temp = [n \in {Pack} |-> "none"]
    /\ inv = [p \in Procs |-> Idle]

\* ------------------------------------------------------------ vocabulary
Done(p) == inv[p].pc = "done"

\* The call found its manifest.
Found(p) == inv[p].manifest.Found

\* The step kinds that leave no clean removal path.
ExtractionFamily ==
    {"cab_extract", "archive_extract", "install_fonts", "copy_dll"}

HasFamilyStep(steps) == \E i \in 1..Len(steps) : steps[i] \in ExtractionFamily

IsHandlerCall(c) == c.h \in HandlerNames

\* The handler invocations of a call, in the order they were made.
Handlers(p) == SelectSeq(inv[p].calls, IsHandlerCall)

IsRecognised(a) == a \in RecognisedActions

\* The manifest's steps without those of an unrecognised action.
Strip(steps) == SelectSeq(steps, IsRecognised)

\* The steps the loop has taken so far.
TakenSteps(p) == SubSeq(inv[p].manifest.Steps, 1, inv[p].taken)

Count(s, x) == Cardinality({i \in 1..Len(s) : s[i] = x})

IsStatus(n) == n \in {"set_installed_True", "set_installed_False"}

Statuses(p) == SelectSeq(inv[p].notes, IsStatus)

Last(s) == s[Len(s)]

Entry(cfg, dep) ==
    IF dep \in DOMAIN cfg.Uninstallers THEN cfg.Uninstallers[dep] ELSE "<absent>"

LedgerUnchanged(p) ==
    /\ config.Installed_Dependencies = inv[p].config0.Installed_Dependencies
    /\ config.Uninstallers = inv[p].config0.Uninstallers

\* --------------------------------------------------------------- claims

\* C1 (as claimed): after an install call that found its manifest, the
\* dependency occurs exactly once in Installed_Dependencies. The code breaks
\* it: a handler that raises unwinds the call before line 214.
C1_InstalledExactlyOnce ==
    \A p \in Procs :
       (Done(p) /\ Found(p)) =>
          Count(config.Installed_Dependencies, inv[p].dependency) = 1

\* C2 (as claimed): after an install call whose manifest has an
\* extraction- or copy-family step, the Uninstallers entry of the
\* dependency is NO_UNINSTALLER, whether the handler succeeded or failed.
C2_SentinelRecorded ==
    \A p \in Procs :
       (Done(p) /\ Found(p) /\ HasFamilyStep(inv[p].manifest.Steps)) =>
          Entry(config, inv[p].dependency) = NO_UNINSTALLER

\* C3: a call whose manifest declares no Uninstaller and has no
\* extraction- or copy-family step never writes the Uninstallers mapping:
\* at every point of the call it equals the mapping the call started with.
C3_NoUninstallerWrite ==
    \A p \in Procs :
       (/\ Found(p)
        /\ inv[p].manifest.Uninstaller = ""
        /\ ~HasFamilyStep(inv[p].manifest.Steps)) =>
          config.Uninstallers = inv[p].config0.Uninstallers

\* C3 witness: such a call has run its steps, added the dependency and
\* returned True.
C3_Witness ==
    \E p \in Procs :
       /\ Done(p) /\ Found(p) /\ inv[p].result = "True"
       /\ inv[p].manifest.Uninstaller = ""
       /\ Len(inv[p].manifest.Steps) = MaxSteps
       /\ ~HasFamilyStep(inv[p].manifest.Steps)
       /\ inv[p].dependency \notin Range(inv[p].config0.Installed_Dependencies)
       /\ inv[p].dependency \in Range(config.Installed_Dependencies)

\* C4 (as claimed): a call that finds no manifest returns False, without a
\* handler call and without a ledger write. The code breaks the first part
\* when the widget is None: line 143 raises AttributeError.
C4_ManifestMissingReturnsFalse ==
    \A p \in Procs :
       (Done(p) /\ inv[p].result # "not_started" /\ ~Found(p)) =>
          /\ inv[p].result = "False"
          /\ Handlers(p) = <<>>
          /\ LedgerUnchanged(p)

\* The place, among the handler calls, of the call made for step k.
HandlerIndex(steps, k) == Len(Strip(SubSeq(steps, 1, k)))

\* The steps that stage files under Paths.temp.
Stagers == {"cab_extract", "archive_extract"}

\* C5 (as claimed): the handlers are called in the manifest's step order;
\* a copy_dll step placed before the extraction step that stages its source
\* reports the missing source by returning False, and one that runs after a
\* successful archive_extract copies the file. The code breaks the middle part for a
\* file_name with a "*": glob() of the missing path is empty and the
\* handler returns None.
C5_StepOrder ==
    \A p \in Procs :
       Found(p) =>
          LET steps == inv[p].manifest.Steps
              hs == Handlers(p)
              want == Strip(TakenSteps(p))
          IN
          /\ Len(hs) = Len(want)
          /\ \A i \in 1..Len(hs) : hs[i].h = HandlerOf(want[i])
          /\ \A k \in 1..inv[p].taken :
                steps[k] = "copy_dll" =>
                   LET c == hs[HandlerIndex(steps, k)] IN
                   /\ (/\ inv[p].temp0 = "none"
                       /\ \A j \in 1..(k - 1) : steps[j] \notin Stagers
                       /\ \E j \in (k + 1)..Len(steps) : steps[j] \in Stagers)
                         => c.r = "False"
                   /\ (\E j \in 1..(k - 1) :
                          /\ steps[j] = "archive_extract"
                          /\ hs[HandlerIndex(steps, j)].r = "ok")
                         => c.r = "copied"

\* C6 (as claimed): once the manifest is resolved no handler failure stops
\* the loop: the call ends with every step taken and the ledger update
\* reached. The code breaks it: install_fonts and archive_extract raise,
\* and cab_extract calls exit().
C6_NoHandlerFailureStopsLoop ==
    \A p \in Procs :
       (Done(p) /\ Found(p)) =>
          /\ inv[p].taken = Len(inv[p].manifest.Steps)
          /\ inv[p].result = "True"

\* C7: when a call with a manifest and a widget completes, the last
\* notification is set_installed(True) exactly if the manifest has no
\* extraction- or copy-family step; when it is set_installed(False) the
\* dependency is listed with the entry NO_UNINSTALLER, while the
\* set_installed(False) of a missing manifest comes with an untouched ledger.
C7_FinalStatus ==
    \A p \in Procs :
       (Done(p) /\ inv[p].widget # "None") =>
          /\ inv[p].result = "True" =>
                /\ inv[p].notes # <<>>
                /\ IsStatus(Last(inv[p].notes))
                /\ Last(inv[p].notes) = "set_installed_True"
                      <=> ~HasFamilyStep(inv[p].manifest.Steps)
                /\ Last(inv[p].notes) = "set_installed_False" =>
                      /\ inv[p].dependency \in Range(config.Installed_Dependencies)
                      /\ Entry(config, inv[p].dependency) = NO_UNINSTALLER
          /\ inv[p].result = "False" =>
                /\ ~Found(p)
                /\ inv[p].notes = <<"set_installed_False">>
                /\ LedgerUnchanged(p)

\* C7 witness: a completed call with a widget whose manifest has a family
\* step: set_installed(False), the dependency newly listed.
C7_Witness ==
    \E p \in Procs :
       /\ Done(p) /\ inv[p].widget # "None" /\ inv[p].result = "True"
       /\ HasFamilyStep(inv[p].manifest.Steps)
       /\ Last(inv[p].notes) = "set_installed_False"
       /\ inv[p].dependency \notin Range(inv[p].config0.Installed_Dependencies)
       /\ Entry(config, inv[p].dependency) = NO_UNINSTALLER

IsStatusOrErr(n) == IsStatus(n) \/ n = "set_err"

\* C8 (as claimed), for the calls that ran to their end: the widget got
\* exactly one status notification, a final status, and no error state
\* with it.
C8_ExactlyOneNotification ==
    \A p \in Procs :
       (Done(p) /\ inv[p].widget # "None" /\ inv[p].result = "True") =>
          SelectSeq(inv[p].notes, IsStatusOrErr) \in
             {<<"set_installed_True">>, <<"set_installed_False">>}

\* C8 (amended): a call of install() with a widget delivers at most one
\* final status; it delivers one exactly when async_install returns (True
\* or False), and then as its last notification; the other notifications
\* are the error state of a failed cabinet extraction and the re-enabled
\* install button.
C8_AtMostOneStatus ==
    \A p \in Procs :
       inv[p].widget # "None" =>
          /\ Len(Statuses(p)) <= 1
          /\ \A i \in 1..Len(inv[p].notes) :
                \/ IsStatus(inv[p].notes[i])
                \/ inv[p].notes[i] \in {"set_err", "btn_install.set_sensitive"}
          /\ Done(p) =>
                /\ Len(Statuses(p)) = 1 <=> inv[p].result \in {"True", "False"}
                /\ Len(Statuses(p)) = 1 => IsStatus(Last(inv[p].notes))

\* C8 witness: a completed call that delivered the error state before its
\* final status.
C8_Witness ==
    \E p \in Procs :
       /\ Done(p) /\ inv[p].widget # "None" /\ inv[p].result = "True"
       /\ \E i \in 1..Len(inv[p].notes) : inv[p].notes[i] = "set_err"
       /\ Last(inv[p].notes) = "set_installed_False"

\* C9 (as claimed): when the only step is install_exe/install_msi and its
\* fetch fails, the call does not add the dependency, writes no Uninstallers
\* entry, does not report installed=true and does not return True.
C9_InstallerFetchFailureAborts ==
    \A p \in Procs :
       (/\ Done(p) /\ Found(p)
        /\ inv[p].manifest.Steps = <<"install_exe">>
        /\ Handlers(p)[1].r = "False") =>
          /\ inv[p].result # "True"
          /\ LedgerUnchanged(p)
          /\ \A i \in 1..Len(inv[p].notes) :
                inv[p].notes[i] # "set_installed_True"

\* The Installed_Dependencies a completed call leaves.
ExpectedInstalled(cfg, dep) ==
    IF dep \in Range(cfg.Installed_Dependencies)
    THEN cfg.Installed_Dependencies
    ELSE Append(cfg.Installed_Dependencies, dep)

\* The Uninstallers entry of dep a completed call leaves for these steps.
ExpectedEntry(cfg, dep, steps, declared) ==
    IF HasFamilyStep(steps) THEN NO_UNINSTALLER
    ELSE IF declared # "" THEN declared
    ELSE Entry(cfg, dep)

\* C10: a step of an unrecognised action calls no handler, does not set
\* has_no_uninstaller and does not stop the loop: at every point of a call
\* the handler calls made and the flag are those of the steps taken with the
\* unrecognised ones removed, one handler per recognised step, and a
\* completed call leaves the ledger that the manifest without the
\* unrecognised steps determines.
C10_UnrecognisedSkipped ==
    \A p \in Procs :
       Found(p) =>
          LET hs == Handlers(p)
              want == Strip(TakenSteps(p))
              kept == Strip(inv[p].manifest.Steps)
              dep == inv[p].dependency
          IN
          /\ Len(hs) = Len(want)
          /\ \A i \in 1..Len(hs) : hs[i].h = HandlerOf(want[i])
          /\ inv[p].has_no_uninstaller = HasFamilyStep(want)
          /\ (inv[p].pc = "steps" /\
              inv[p].manifest.Steps[inv[p].taken + 1] = UnknownAction)
                => ENABLED StepSkipped(p)
          /\ inv[p].result = "True" =>
                /\ inv[p].taken = Len(inv[p].manifest.Steps)
                /\ config.Installed_Dependencies =
                      ExpectedInstalled(inv[p].config0, dep)
                /\ Entry(config, dep) =
                      ExpectedEntry(inv[p].config0, dep, kept,
                                    inv[p].manifest.Uninstaller)

\* C10 witness: a completed call whose manifest is an unrecognised step
\* followed by a recognised one: one handler call, both steps taken.
C10_Witness ==
    \E p \in Procs :
       /\ Done(p) /\ inv[p].result = "True"
       /\ inv[p].manifest.Steps = <<UnknownAction, "archive_extract">>
       /\ Len(Handlers(p)) = 1
       /\ Handlers(p)[1].r = "ok"
       /\ Entry(config, inv[p].dependency) = NO_UNINSTALLER

\* The call has been started: async_install runs or has ended.
Started(p) == inv[p].pc # "idle" /\ inv[p].result # "not_started"

\* C11: a call writes Installed_Dependencies and Uninstallers only. At every
\* point of a call the other config field is the one the call started with,
\* Installed_Dependencies is the list the call started with, or that list
\* with the dependency (absent before) appended last, and the Uninstallers
\* entry of every other dependency is the one the call started with.
C11_FrameEffect ==
    \A p \in Procs :
       inv[p].pc # "idle" =>
          LET c0 == inv[p].config0
              dep == inv[p].dependency
          IN
          /\ DOMAIN config = DOMAIN c0
          /\ config.Versioning = c0.Versioning
          /\ \/ config.Installed_Dependencies = c0.Installed_Dependencies
             \/ /\ dep \notin Range(c0.Installed_Dependencies)
                /\ config.Installed_Dependencies =
                      Append(c0.Installed_Dependencies, dep)
          /\ \A d \in Deps \ {dep} : Entry(config, d) = Entry(c0, d)
          /\ DOMAIN config.Uninstallers \subseteq
                DOMAIN c0.Uninstallers \cup {dep}

\* C11 witness: a completed call on a bottle that lists another dependency
\* with an uninstaller: the new name is last, its entry is written, the
\* other entry is as before.
C11_Witness ==
    \E p \in Procs :
       /\ Done(p) /\ inv[p].result = "True"
       /\ inv[p].config0.Installed_Dependencies = <<"d2">>
       /\ config.Installed_Dependencies = <<"d2", inv[p].dependency>>
       /\ Entry(inv[p].config0, inv[p].dependency) = "<absent>"
       /\ Entry(config, inv[p].dependency) = "Setup"
       /\ Entry(config, "d2") = "Setup"

\* The handler calls of a call that are installer steps whose fetch failed.
FailedInstallerFetches(p) ==
    {i \in 1..Len(Handlers(p)) :
        /\ Handlers(p)[i].h = HandlerOf("install_exe")
        /\ Handlers(p)[i].r = "False"}

\* C12 (as claimed): run_executable is called only by an installer step
\* whose fetch succeeded; after an installer step whose fetch failed, in a
\* manifest with further steps, those steps are all dispatched and the
\* dependency is listed when the call has ended. The code breaks the second
\* part: a later handler that does not return ends the call.
C12_InstallerFetchThenRun ==
    \A p \in Procs :
       Found(p) =>
          /\ \A i \in 1..Len(Handlers(p)) :
                "run_executable" \in Range(Handlers(p)[i].ext) =>
                   /\ Handlers(p)[i].h = HandlerOf("install_exe")
                   /\ Handlers(p)[i].r # "False"
                   /\ Handlers(p)[i].ext = <<"download", "run_executable">>
          /\ (Done(p) /\ FailedInstallerFetches(p) # {}) =>
                /\ Len(Handlers(p)) = Len(Strip(inv[p].manifest.Steps))
                /\ inv[p].dependency \in Range(config.Installed_Dependencies)

\* The handler calls of a call that are cab_extract steps whose extraction
\* failed.
FailedCabExtractions(p) ==
    {i \in 1..Len(Handlers(p)) :
        /\ Handlers(p)[i].h = HandlerOf("cab_extract")
        /\ Handlers(p)[i].r \in {"extract_failed", "exit"}}

\* C13 (as claimed): a cab_extract step whose extraction failed reports
\* set_err to the widget and does not stop the loop: when the call has
\* ended, every step of the manifest has been dispatched and the ledger
\* update has been made. The code breaks it for a temp/ url: exit().
C13_CabFailureKeepsLoop ==
    \A p \in Procs :
       (Done(p) /\ Found(p) /\ FailedCabExtractions(p) # {}) =>
          /\ inv[p].widget # "None" =>
                \E i \in 1..Len(inv[p].notes) : inv[p].notes[i] = "set_err"
          /\ \A i \in FailedCabExtractions(p) :
                Handlers(p)[i].r = "extract_failed" =>
                   Handlers(p)[i].ext = <<"download", "CabExtract", "CabExtract">>
          /\ inv[p].taken = Len(inv[p].manifest.Steps)
          /\ Len(Handlers(p)) = Len(Strip(inv[p].manifest.Steps))
          /\ inv[p].dependency \in Range(config.Installed_Dependencies)
          /\ Entry(config, inv[p].dependency) = NO_UNINSTALLER

\* The Uninstallers entry that a manifest alone determines.
ManifestEntry(steps, declared) ==
    IF HasFamilyStep(steps) THEN NO_UNINSTALLER
    ELSE IF declared # "" THEN declared
    ELSE "<absent>"

\* C14 (as claimed): after each completed install the Uninstallers entry of
\* the dependency is the one the manifest of that install determines, never
\* one left by an earlier install.
C14_LatestManifestDetermines ==
    \A p \in Procs :
       (Done(p) /\ inv[p].result = "True") =>
          Entry(config, inv[p].dependency) =
             ManifestEntry(inv[p].manifest.Steps, inv[p].manifest.Uninstaller)

\* C14 (amended): a completed install whose manifest declares an Uninstaller
\* or has an extraction- or copy-family step leaves the entry its manifest
\* determines, whatever the entry was before; a completed install whose
\* manifest has neither leaves the entry as it was before the install.
C14_RecordedOverwrites ==
    \A p \in Procs :
       (Done(p) /\ inv[p].result = "True") =>
          LET m == inv[p].manifest
              dep == inv[p].dependency
          IN
          IF m.Uninstaller # "" \/ HasFamilyStep(m.Steps)
          THEN Entry(config, dep) = ManifestEntry(m.Steps, m.Uninstaller)
          ELSE Entry(config, dep) = Entry(inv[p].config0, dep)

\* C14 witness: a completed re-install whose manifest has a family step, on
\* a bottle where an earlier install left a declared uninstaller: the entry
\* is overwritten.
C14_Witness ==
    \E p \in Procs :
       /\ Done(p) /\ inv[p].result = "True"
       /\ inv[p].dependency \in Range(inv[p].config0.Installed_Dependencies)
       /\ Entry(inv[p].config0, inv[p].dependency) = "Setup"
       /\ inv[p].manifest.Uninstaller = "Setup"
       /\ HasFamilyStep(inv[p].manifest.Steps)
       /\ Entry(config, inv[p].dependency) = NO_UNINSTALLER

IsSnapshot(c) == c.h = "async_create_bottle_state"

\* The snapshot requests of a call.
Snapshots(p) == SelectSeq(inv[p].calls, IsSnapshot)

\* C15: a call of async_install on a bottle with Versioning set requests
\* exactly one snapshot, labelled "before <dependency>", before it resolves
\* the manifest, calls a handler or writes the ledger; with Versioning not
\* set it requests none.
C15_SnapshotFirst ==
    \A p \in Procs :
       /\ inv[p].pc \in {"idle", "begin"} =>
             /\ inv[p].calls = <<>>
             /\ ~Found(p)
             /\ inv[p].pc = "begin" => LedgerUnchanged(p)
       /\ (Started(p) /\ inv[p].pc # "begin") =>
             IF inv[p].config0.Versioning
             THEN /\ Len(Snapshots(p)) = 1
                  /\ IsSnapshot(inv[p].calls[1])
                  /\ inv[p].calls[1].ext = <<"before", inv[p].dependency>>
             ELSE Len(Snapshots(p)) = 0

\* C15 witness: a completed call on a bottle with Versioning set, with its
\* handler calls and ledger writes after the snapshot.
C15_Witness ==
    \E p \in Procs :
       /\ Done(p) /\ inv[p].result = "True"
       /\ inv[p].config0.Versioning
       /\ Len(Snapshots(p)) = 1
       /\ Len(Handlers(p)) = MaxSteps
       /\ \E i \in 2..Len(inv[p].calls) : inv[p].calls[i].h = "update_config"

\* C19 (as claimed): a call that has opened a download-tracking entry has
\* released it when it has ended, however it ended. The code breaks it: the
\* return for a missing manifest leaves the entry open.
C19_HandleReleased ==
    \A p \in Procs :
       (Done(p) /\ inv[p].download_entry # "none") =>
          inv[p].download_entry = "removed"

\* C20: every key of Uninstallers is listed in Installed_Dependencies, in
\* every state of calls made one after the other, the state between the two
\* ledger writes included.
C20_UninstallersListed ==
    DOMAIN config.Uninstallers \subseteq Range(config.Installed_Dependencies)

\* C20 witness: a call between its two ledger writes: the dependency has
\* just been listed and its Uninstallers entry is still to be written.
C20_Witness ==
    \E p \in Procs :
       /\ inv[p].pc = "uninstaller"
       /\ inv[p].dependency \notin Range(inv[p].config0.Installed_Dependencies)
       /\ inv[p].dependency \in Range(config.Installed_Dependencies)
       /\ inv[p].dependency \notin DOMAIN config.Uninstallers
       /\ RecordsUninstaller(inv[p].manifest, inv[p].has_no_uninstaller)

CabModes == {"url", "temp", "other"}

ArchiveOutcomes == {"fetch_failed", "ok", "extract_error"}

Worker(p) ==
    \/ Begin(p)
    \/ /\ inv[p].pc = "get_dependency"
       /\ \E m \in Manifests \cup {NoManifest} : GetDependency(p, m)
    \/ \E found \in BOOLEAN : StepDeleteSys32Dlls(p, found)
    \/ \E download \in BOOLEAN : StepInstallExeMsi(p, download)
    \/ \E match \in BOOLEAN : StepUninstall(p, match)
    \/ /\ inv[p].pc = "steps"
       /\ \E mode \in CabModes, download, e1, e2 \in BOOLEAN :
             StepCabExtract(p, mode, download, e1, e2)
    \/ \E outcome \in ArchiveOutcomes : StepArchiveExtract(p, outcome)
    \/ StepInstallFonts(p)
    \/ \E wildcard \in BOOLEAN : StepCopyDll(p, wildcard)
    \/ \E staged_url \in BOOLEAN : StepOverrideDll(p, staged_url)
    \/ StepSetRegisterKey(p)
    \/ StepRegisterFont(p)
    \/ StepSkipped(p)
    \/ CheckInstalled(p)
    \/ BuildList(p)
    \/ WriteInstalled(p)
    \/ UpdateUninstaller(p)
    \/ ReportStatus(p)
    \/ Return(p)

\* The calls of install() are made one after the other.
Next ==
    \E p \in Procs :
       \/ \E dep \in Requested, w \in Widgets, conn \in BOOLEAN :
             Sequential(p) /\ Install(p, dep, w, conn)
       \/ Worker(p)

Spec == Init /\ [][Next]_vars

\* ------------------------------------------------- concurrent installs
\* install() starts one thread per call (RunAsync, line 267) and nothing
\* orders the threads: two threads on the same bottle, one call each, whose
\* archives are staged under the same name.
ConcProcs == {1, 2}

\* The manifests of the concurrent calls: an archive is extracted, and a
\* later step copies from the staging directory.
ConcManifests ==
    [Found : {TRUE},
     Steps : {<<>>, <<"archive_extract", "copy_dll">>},
     Uninstaller : {""}]

InitConc ==
    /\ config = [Versioning |-> FALSE, Installed_Dependencies |-> <<>>,
                 Uninstallers |-> <<>>]
    /\ temp = [n \in {Pack} |-> "none"]
    /\ inv = [p \in ConcProcs |-> Idle]

ConcWorker(p) ==
    \/ Begin(p)
    \/ /\ inv[p].pc = "get_dependency"
       /\ \E m \in ConcManifests : GetDependency(p, m)
    \/ \E outcome \in ArchiveOutcomes : StepArchiveExtract(p, outcome)
    \/ \E wildcard \in BOOLEAN : StepCopyDll(p, wildcard)
    \/ CheckInstalled(p)
    \/ BuildList(p)
    \/ WriteInstalled(p)
    \/ UpdateUninstaller(p)
    \/ ReportStatus(p)

\* Any worker may start its call while the other runs.
NextConc ==
    \E p \in ConcProcs :
       \/ \E dep \in Deps : Install(p, dep, "widget", TRUE)
       \/ ConcWorker(p)

SpecConc == InitConc /\ [][NextConc]_vars

\* The handler calls of worker p, in the order they were made.
ConcHandlers(p) == SelectSeq(inv[p].calls, IsHandlerCall)

\* The copy steps of p made after an archive_extract of p that staged its
\* files.
CopiesAfterOwnExtract(p) ==
    {i \in 1..Len(ConcHandlers(p)) :
        /\ ConcHandlers(p)[i].h = HandlerOf("copy_dll")
        /\ \E j \in 1..(i - 1) :
              /\ ConcHandlers(p)[j].h = HandlerOf("archive_extract")
              /\ ConcHandlers(p)[j].r = "ok"}

\* The copy step found the files its own call staged.
ReadsOwnFiles(p, i) ==
    /\ ConcHandlers(p)[i].r = "copied"
    /\ ConcHandlers(p)[i].read = inv[p].dependency

\* C16: a copy step that follows its call's own successful archive_extract
\* reads files its call did not stage, or finds its source missing, only in
\* a call that ran while another call ran; the copy step of a call that ran
\* alone reads the files its call staged.
C16_SharedStagingCorrupts ==
    \A p \in ConcProcs :
       \A i \in CopiesAfterOwnExtract(p) :
          ~ReadsOwnFiles(p, i) => inv[p].overlapped

\* C16 witness: the interleaving exists. Two calls of different
\* dependencies are in flight, and the copy step of one, made after its own
\* successful extraction, has read the files the other staged.
C16_Witness ==
    \E p \in ConcProcs, q \in ConcProcs :
       /\ p # q
       /\ inv[p].dependency # inv[q].dependency
       /\ inv[p].overlapped
       /\ \E i \in CopiesAfterOwnExtract(p) :
             /\ ConcHandlers(p)[i].r = "copied"
             /\ ConcHandlers(p)[i].read = inv[q].dependency

\* Two calls of different dependencies have both returned True.
BothCompleted(p, q) ==
    /\ p # q
    /\ inv[p].pc = "done" /\ inv[p].result = "True"
    /\ inv[q].pc = "done" /\ inv[q].result = "True"
    /\ inv[p].dependency # inv[q].dependency

\* C17 (as claimed): after two concurrent calls of different dependencies
\* have both completed, Installed_Dependencies lists both.
C17_NoLostUpdate ==
    \A p \in ConcProcs, q \in ConcProcs :
       BothCompleted(p, q) =>
          {inv[p].dependency, inv[q].dependency} \subseteq
             Range(config.Installed_Dependencies)

\* C17 (amended): after two calls of different dependencies have both
\* completed, Installed_Dependencies lists both when neither call ran while
\* another call ran.
C17_NoLostUpdateWhenSerialised ==
    \A p \in ConcProcs, q \in ConcProcs :
       (BothCompleted(p, q) /\ ~inv[p].overlapped /\ ~inv[q].overlapped) =>
          {inv[p].dependency, inv[q].dependency} \subseteq
             Range(config.Installed_Dependencies)

\* C17 witness: two calls of different dependencies made one after the
\* other have both completed and both names are listed.
C17_Witness ==
    \E p \in ConcProcs, q \in ConcProcs :
       /\ BothCompleted(p, q) /\ ~inv[p].overlapped /\ ~inv[q].overlapped
       /\ inv[p].config0.Installed_Dependencies = <<>>
       /\ inv[q].config0.Installed_Dependencies = <<inv[p].dependency>>
       /\ config.Installed_Dependencies =
             <<inv[p].dependency, inv[q].dependency>>

NoDuplicate(installed) ==
    \A i \in 1..Len(installed), j \in 1..Len(installed) :
       installed[i] = installed[j] => i = j

\* C18 (as claimed): Installed_Dependencies has no duplicate name in any
\* reachable state, however two calls of the same dependency interleave.
C18_NoDuplicate == NoDuplicate(config.Installed_Dependencies)

\* C18 (amended): a write that puts a duplicate name in a duplicate-free
\* Installed_Dependencies is the write of a call that ran while another
\* call ran; calls made one after the other keep the list duplicate-free.
C18_NoDuplicateWhenSerialised ==
    [][(/\ NoDuplicate(config.Installed_Dependencies)
        /\ ~NoDuplicate(config'.Installed_Dependencies)) =>
          \E p \in ConcProcs :
             /\ inv[p].pc = "write_installed"
             /\ inv'[p].pc = "uninstaller"
             /\ inv[p].overlapped]_vars

\* C18 witness: two calls of the same dependency made one after the other
\* have both completed: the second found the name listed and the name is
\* listed once.
C18_Witness ==
    \E p \in ConcProcs, q \in ConcProcs :
       /\ p # q
       /\ inv[p].pc = "done" /\ inv[p].result = "True"
       /\ inv[q].pc = "done" /\ inv[q].result = "True"
       /\ inv[p].dependency = inv[q].dependency
       /\ ~inv[p].overlapped /\ ~inv[q].overlapped
       /\ inv[p].config0.Installed_Dependencies = <<>>
       /\ inv[q].config0.Installed_Dependencies = <<inv[p].dependency>>
       /\ config.Installed_Dependencies = <<inv[p].dependency>>
====
